---- MODULE Spec2Model ----
(***************************************************************************)
(* A model of the uri_parser crate: the character classes (statics.rs),    *)
(* the percent codec (coder.rs), the IP-literal validators (ip.rs), the    *)
(* authority parser (authority.rs) and the URI parser (uri.rs).            *)
(*                                                                         *)
(* A Rust `char` is its code point (a natural number), a `String`/`&str`   *)
(* is a sequence of code points, an `Option<T>` is a sequence of length 0  *)
(* (None) or 1 (Some).  A `Result` is a record: Ok(v) or Err(e); a panic   *)
(* of the Rust runtime is the result Panic.                                *)
(***************************************************************************)
EXTENDS Integers, Sequences, FiniteSets, TLC

(***************************************************************************)
(* Characters the code names.                                              *)
(***************************************************************************)
PERCENT == 37
COLON == 58
SLASH == 47
QUESTION == 63
HASH == 35
AT == 64
LBRACKET == 91
RBRACKET == 93
DOT == 46
SPACE == 32
LOWER_V == 118
UPPER_V == 86
PLUS == 43
MAX_ASCII == 127
MAX_U16 == 65535

(***************************************************************************)
(* Option and Result.                                                      *)
(***************************************************************************)
None == <<>>

Some(v) == <<v>>

IsSome(o) == Len(o) = 1

IsNone(o) == Len(o) = 0

Unwrap(o) == o[1]

Ok(v) == [kind |-> "Ok", val |-> v, err |-> "None"]

Err(e) == [kind |-> "Err", val |-> <<>>, err |-> e]

Panic == [kind |-> "Panic", val |-> <<>>, err |-> "None"]

IsOk(r) == r.kind = "Ok"

IsErr(r) == r.kind = "Err"

(***************************************************************************)
(* String helpers: Rust's str methods on sequences of code points.         *)
(***************************************************************************)
\* s[from..] counted in characters: the suffix after the first n characters.
Drop(s, n) == SubSeq(s, n + 1, Len(s))

\* s[..n] counted in characters.
Take(s, n) == SubSeq(s, 1, n)

\* str::find(c): the 0-based index of the first c, or -1.
Find(s, c) ==
    IF \E i \in 1..Len(s) : s[i] = c
    THEN (CHOOSE i \in 1..Len(s) : s[i] = c /\ \A j \in 1..(i - 1) : s[j] # c) - 1
    ELSE -1

\* str::rfind(c): the 0-based index of the last c, or -1.
RFind(s, c) ==
    IF \E i \in 1..Len(s) : s[i] = c
    THEN (CHOOSE i \in 1..Len(s) : s[i] = c /\ \A j \in (i + 1)..Len(s) : s[j] # c) - 1
    ELSE -1

Contains(s, c) == \E i \in 1..Len(s) : s[i] = c

StartsWith(s, c) == Len(s) >= 1 /\ s[1] = c

\* The UTF-8 length of one character.
Utf8Len(c) == IF c < 128 THEN 1 ELSE IF c < 2048 THEN 2 ELSE IF c < 65536 THEN 3 ELSE 4

\* str::len(): the length in bytes.
RECURSIVE ByteLen(_)
ByteLen(s) == IF s = <<>> THEN 0 ELSE Utf8Len(s[1]) + ByteLen(Drop(s, 1))

\* The number of characters that make up the first b bytes of s, or -1 when
\* byte offset b is not a character boundary of s.
CharsBefore(s, b) ==
    IF \E k \in 0..Len(s) : ByteLen(Take(s, k)) = b
    THEN CHOOSE k \in 0..Len(s) : ByteLen(Take(s, k)) = b
    ELSE -1

\* A fold that leaves the case as it is.
ToLowerKeepsCase(s) == s

\* char::to_ascii_lowercase on each character (String::to_lowercase on ASCII).
ToLower(s) == [i \in 1..Len(s) |-> IF s[i] \in 65..90 THEN s[i] + 32 ELSE s[i]]

(***************************************************************************)
(* statics.rs: the character classes.                                      *)
(***************************************************************************)
ALPHA == (97..122) \cup (65..90)

DIGIT == 48..57

HEXDIG == (48..57) \cup (97..102) \cup (65..70)

GEN_DELIMS == {COLON, SLASH, QUESTION, HASH, LBRACKET, RBRACKET, AT}

\* ! $ & ' ( ) * + , ; =
SUB_DELIMS == {33, 36, 38, 39, 40, 41, 42, 43, 44, 59, 61}

\* ALPHA DIGIT - . _ ~
UNRESERVED == ALPHA \cup DIGIT \cup {45, 46, 95, 126}

\* ALPHA DIGIT + - .
SCHEME == ALPHA \cup DIGIT \cup {43, 45, 46}

USER_INFO == UNRESERVED \cup SUB_DELIMS

STRIPPED_IP_FUTURE == UNRESERVED \cup SUB_DELIMS \cup {COLON}

REG_NAME == UNRESERVED \cup SUB_DELIMS \cup {DOT}

\* A path class that also holds '?'.
PATH_with_question == UNRESERVED \cup SUB_DELIMS \cup {COLON, AT, SLASH, QUESTION}

PATH == UNRESERVED \cup SUB_DELIMS \cup {COLON, AT, SLASH}

QUERY == UNRESERVED \cup SUB_DELIMS \cup {COLON, AT, SLASH, QUESTION}

FRAGMENT == UNRESERVED \cup SUB_DELIMS \cup {COLON, AT, SLASH, QUESTION}

\* The classes a Decoder or an Encoder is built with, by name.
ClassNames == {"ALPHA", "DIGIT", "SCHEME", "USER_INFO", "REG_NAME", "PATH", "QUERY", "FRAGMENT"}

ClassSet(name) ==
    CASE name = "ALPHA" -> ALPHA
      [] name = "DIGIT" -> DIGIT
      [] name = "SCHEME" -> SCHEME
      [] name = "USER_INFO" -> USER_INFO
      [] name = "REG_NAME" -> REG_NAME
      [] name = "PATH" -> PATH
      [] name = "QUERY" -> QUERY
      [] name = "FRAGMENT" -> FRAGMENT

(***************************************************************************)
(* coder.rs: Decoder.                                                      *)
(***************************************************************************)
\* Decoder::new
NewDecoder(input, viable_chars) ==
    [input |-> input, output |-> <<>>, viable_chars |-> viable_chars, finished |-> FALSE]

\* char::to_digit(16): the digit's value, or -1 for None.
ToDigit16(c) ==
    IF c \in 48..57 THEN c - 48
    ELSE IF c \in 97..102 THEN c - 87
    ELSE IF c \in 65..70 THEN c - 55
    ELSE -1

\* A decoder that takes any two hexadecimal digits, a byte above 0x7F included.
HexPairAnyByte(h1, h2) ==
    IF ToDigit16(h1) = -1 \/ ToDigit16(h2) = -1 THEN -1
    ELSE ToDigit16(h1) * 16 + ToDigit16(h2)

\* A decoder that validates the first digit only and reads any other second
\* character as the digit 0.
HexPairSecondUnchecked(h1, h2) ==
    IF ToDigit16(h1) = -1 \/ ToDigit16(h1) > 7 THEN -1
    ELSE ToDigit16(h1) * 16 + (IF ToDigit16(h2) = -1 THEN 0 ELSE ToDigit16(h2))

\* The two characters after a '%': the byte they denote, or -1 where decode()
\* returns IllegalPercentEncoding.  The HEXDIG test reads h1 twice, as the code
\* does; to_digit(16) is what rejects a second character that is no digit.
HexPair(h1, h2) ==
    LET int1 == ToDigit16(h1)
        int2 == ToDigit16(h2)
    IN IF ~(h1 \in HEXDIG /\ h1 \in HEXDIG) THEN -1
       ELSE IF int1 = -1 \/ int2 = -1 THEN -1
       ELSE IF int1 > 7 THEN -1
       ELSE int1 * 16 + int2

\* The while loop of Decoder::decode: the instance after the loop and the result.
RECURSIVE DecodeLoop(_)
DecodeLoop(self) ==
    IF self.input = <<>>
    THEN [self |-> [self EXCEPT !.finished = TRUE], res |-> Ok(self.output)]
    ELSE LET char == self.input[1]
             popped == Drop(self.input, 1)
         IN IF char = PERCENT
            THEN \* (pop_front(), pop_front()): both are popped, whatever they return
                 LET after == Drop(popped, 2)
                     failed == [self |-> [self EXCEPT !.input = after],
                                res |-> Err("IllegalPercentEncoding")]
                 IN IF Len(popped) < 2
                    THEN failed
                    ELSE LET decoded_char == HexPair(popped[1], popped[2])
                         IN IF decoded_char = -1 THEN failed
                            ELSE DecodeLoop([self EXCEPT
                                     !.input = after,
                                     !.output = Append(self.output, decoded_char)])
            ELSE IF char \in ClassSet(self.viable_chars)
            THEN DecodeLoop([self EXCEPT !.input = popped,
                                         !.output = Append(self.output, char)])
            ELSE [self |-> [self EXCEPT !.input = popped],
                  res |-> Err("IllegalCharacter")]

\* Decoder::decode(&mut self)
Decode(self) ==
    IF self.finished
    THEN [self |-> self, res |-> Ok(self.output)]
    ELSE DecodeLoop(self)

(***************************************************************************)
(* coder.rs: Encoder.                                                      *)
(***************************************************************************)
\* Encoder::new
NewEncoder(input, viable_chars) ==
    [input |-> input, output |-> <<>>, viable_chars |-> viable_chars, finished |-> FALSE]

\* One uppercase hexadecimal digit as a character.
HexChar(d) == IF d < 10 THEN 48 + d ELSE 55 + d

\* format!("{:2X}", dec): uppercase hexadecimal, padded with spaces on the left
\* to a width of 2.
FormatHex2(dec) ==
    IF dec < 16
    THEN <<SPACE, HexChar(dec)>>
    ELSE <<HexChar(dec \div 16), HexChar(dec % 16)>>

\* `char as u8`: the code point truncated to its low 8 bits.
AsU8(c) == c % 256

\* The while loop of Encoder::encode.
RECURSIVE EncodeLoop(_)
EncodeLoop(self) ==
    IF self.input = <<>>
    THEN [self |-> [self EXCEPT !.finished = TRUE], res |-> Ok(self.output)]
    ELSE LET char == self.input[1]
             popped == Drop(self.input, 1)
         IN IF char \in ClassSet(self.viable_chars)
            THEN EncodeLoop([self EXCEPT !.input = popped,
                                         !.output = Append(self.output, char)])
            ELSE LET dec == AsU8(char)
                 IN IF dec > MAX_ASCII
                    THEN [self |-> [self EXCEPT !.input = popped],
                          res |-> Err("IllegalCharacter")]
                    ELSE LET x == FormatHex2(dec)
                         IN EncodeLoop([self EXCEPT
                                !.input = popped,
                                !.output = self.output \o <<PERCENT, x[1], x[Len(x)]>>])

\* Encoder::encode(&mut self)
Encode(self) ==
    IF self.finished
    THEN [self |-> self, res |-> Ok(self.output)]
    ELSE EncodeLoop(self)

\* A fresh Decoder or Encoder run once, as every caller in the crate does.
DecodeStr(s, cls) == Decode(NewDecoder(s, cls)).res

EncodeStr(s, cls) == Encode(NewEncoder(s, cls)).res

(***************************************************************************)
(* ip.rs: the IPv6 and IPvFuture validators.                               *)
(***************************************************************************)
\* A parser that takes 6 colons for a full address.
NewIPv6Parser_six_colons(input) ==
    [had_double_colon |-> FALSE, input |-> input, colon_counter |-> 0,
     char_counter |-> 0, max_colons |-> 6]

\* IPv6Parser::new
NewIPv6Parser(input) ==
    [had_double_colon |-> FALSE, input |-> input, colon_counter |-> 0,
     char_counter |-> 0, max_colons |-> 7]

\* The while loop of IPv6Parser::is_valid; colon is the local `colon`.
RECURSIVE IPv6Loop(_, _)
IPv6Loop(self, colon) ==
    IF self.input = <<>>
    THEN self.max_colons <= self.colon_counter \/ self.had_double_colon
    ELSE LET char == self.input[1]
             popped == [self EXCEPT !.input = Drop(self.input, 1)]
         IN IF char = COLON
            THEN IF self.colon_counter >= self.max_colons THEN FALSE
                 ELSE IF colon
                 THEN IF self.had_double_colon THEN FALSE
                      ELSE IPv6Loop([popped EXCEPT !.had_double_colon = TRUE,
                                                   !.colon_counter = @ + 1], colon)
                 ELSE IPv6Loop([popped EXCEPT !.colon_counter = @ + 1,
                                              !.char_counter = 0], TRUE)
            ELSE IF self.char_counter > 4 THEN FALSE
                 ELSE IF char \notin HEXDIG THEN FALSE
                 ELSE IPv6Loop([popped EXCEPT !.char_counter = @ + 1], FALSE)

\* IPv6Parser::is_valid
IPv6IsValid(self) == IF self.input = <<>> THEN FALSE ELSE IPv6Loop(self, FALSE)

\* ip::is_valid_ip_v6
is_valid_ip_v6(input) == IPv6IsValid(NewIPv6Parser(input))

\* A validator that takes the lowercase 'v' only.
is_valid_ip_v_future_lowercase(input) ==
    /\ Len(input) >= 3
    /\ input[1] = LOWER_V /\ input[2] \in HEXDIG /\ input[3] = DOT
    /\ \A i \in 4..Len(input) : input[i] \in STRIPPED_IP_FUTURE

\* ip::is_valid_ip_v_future.  input[3..] is taken only after the first three
\* characters were found to be 'v'/'V', a HEXDIG and '.', one byte each, so
\* byte offset 3 is the end of the third character.
is_valid_ip_v_future(input) ==
    IF StartsWith(input, LOWER_V) \/ StartsWith(input, UPPER_V)
    THEN IF Len(input) < 3 THEN FALSE
         ELSE LET hexdig == input[2]
                  dot == input[3]
              IN IF hexdig \in HEXDIG /\ dot = DOT /\ ~Contains(input, PERCENT)
                 THEN \A i \in 4..Len(input) : input[i] \in STRIPPED_IP_FUTURE
                 ELSE FALSE
    ELSE FALSE

(***************************************************************************)
(* authority.rs                                                            *)
(***************************************************************************)
\* The struct Authority.
MkAuthority(userinfo, host, port) == [userinfo |-> userinfo, host |-> host, port |-> port]

\* Authority::split_userinfo: (userinfo, rest), each an Option<&str>.
split_userinfo(auth_string) ==
    LET at == Find(auth_string, AT)
    IN IF at = -1 THEN <<None, Some(auth_string)>>
       ELSE LET useri == Take(auth_string, at)
                rest == Drop(auth_string, at + 1)
            IN <<IF useri = <<>> THEN None ELSE Some(useri),
                 IF rest = <<>> THEN None ELSE Some(rest)>>

\* A split_host that keeps an empty host text as present.
split_host_keeps_empty_host(host_port) ==
    LET close == Find(host_port, RBRACKET)
        bracket == StartsWith(host_port, LBRACKET)
        delim == IF bracket THEN close + 1 ELSE 0
        colon == Find(Drop(host_port, delim), COLON)
    IN IF bracket /\ close = -1 THEN Err("IllegaHostDefinition")
       ELSE IF colon = -1 THEN Ok(<<Some(host_port), None>>)
       ELSE LET h == Take(host_port, delim + colon)
                p == Drop(host_port, delim + colon + 1)
            IN Ok(<<Some(h), IF p = <<>> THEN None ELSE Some(p)>>)

\* A split_host that looks for the port's ':' from the start of a bracketed
\* host too.
split_host_any_colon(host_port) ==
    LET close == Find(host_port, RBRACKET)
        bracket == StartsWith(host_port, LBRACKET)
        colon == Find(host_port, COLON)
    IN IF bracket /\ close = -1 THEN Err("IllegaHostDefinition")
       ELSE IF colon = -1 THEN Ok(<<Some(host_port), None>>)
       ELSE LET h == Take(host_port, colon)
                p == Drop(host_port, colon + 1)
            IN Ok(<<IF h = <<>> THEN None ELSE Some(h),
                    IF p = <<>> THEN None ELSE Some(p)>>)

\* Authority::split_host: Ok(<<host, port>>), each an Option<&str>, or Err.
split_host(host_port) ==
    LET close == Find(host_port, RBRACKET)
        bracket == StartsWith(host_port, LBRACKET)
        delim == IF bracket THEN close + 1 ELSE 0
        colon == Find(Drop(host_port, delim), COLON)
    IN IF bracket /\ close = -1 THEN Err("IllegaHostDefinition")
       ELSE IF colon = -1 THEN Ok(<<Some(host_port), None>>)
       ELSE LET h == Take(host_port, delim + colon)
                p == Drop(host_port, delim + colon + 1)
            IN Ok(<<IF h = <<>> THEN None ELSE Some(h),
                    IF p = <<>> THEN None ELSE Some(p)>>)

\* Authority::parse_userinfo
parse_userinfo(user_info) ==
    LET r == DecodeStr(user_info, "USER_INFO")
    IN IF IsErr(r) /\ r.err = "IllegalCharacter" THEN Err("UserinfoIllegalCharacter") ELSE r

\* Authority::parse_host.  host.len() and the slice host[1..host.len() - 2] count
\* bytes: the slice panics when its end is not a character boundary.
parse_host(host) ==
    LET starts_with == StartsWith(host, LBRACKET)
        ends_with == StartsWith(host, LBRACKET)
    IN IF (starts_with /\ ~ends_with) \/ (~starts_with /\ ends_with)
       THEN Err("IllegaHostDefinition")
       ELSE IF starts_with /\ ends_with
       THEN IF ByteLen(host) < 4 THEN Err("IllegaHostDefinition")
            ELSE LET end == CharsBefore(host, ByteLen(host) - 2)
                 IN IF end = -1 THEN Panic
                    ELSE LET host_stripped == SubSeq(host, 2, end)
                         IN IF StartsWith(host_stripped, LOWER_V)
                            THEN IF is_valid_ip_v_future(host_stripped)
                                 THEN Ok(host)
                                 ELSE Err("IllegalIPvFuture")
                            ELSE IF is_valid_ip_v6(host_stripped)
                                 THEN Ok(host)
                                 ELSE Err("IllegalIPv6")
       ELSE LET r == DecodeStr(host, "REG_NAME")
            IN IF IsErr(r) /\ r.err = "IllegalCharacter"
               THEN Err("HostIllegalCharacter") ELSE r

\* The value of a string of decimal digits, or -1 when it is not one or the
\* value is above MAX_U16 (the checked multiply and add of u16::from_str).
RECURSIVE DigitsValue(_, _)
DigitsValue(s, acc) ==
    IF s = <<>> THEN acc
    ELSE IF s[1] \notin DIGIT THEN -1
    ELSE LET next == acc * 10 + (s[1] - 48)
         IN IF next > MAX_U16 THEN -1 ELSE DigitsValue(Drop(s, 1), next)

\* str::parse::<u16>(): the value, or -1 for Err.  An empty string, a lone sign
\* and a '-' are errors; one leading '+' is skipped.
ParseU16(s) ==
    IF s = <<>> THEN -1
    ELSE IF Len(s) = 1 /\ s[1] \in {PLUS, 45} THEN -1
    ELSE IF s[1] = PLUS THEN DigitsValue(Drop(s, 1), 0)
    ELSE DigitsValue(s, 0)

\* Authority::parse_port
parse_port(port_str) ==
    LET v == ParseU16(port_str)
    IN IF v = -1 THEN Err("ParsePortError") ELSE Ok(v)

\* u16::to_string: the decimal numeral.
RECURSIVE ToDecimal(_)
ToDecimal(n) == IF n < 10 THEN <<48 + n>> ELSE Append(ToDecimal(n \div 10), 48 + (n % 10))

\* Authority::parse: Ok(Option<Authority>), Err or Panic.
AuthorityParse(auth_string) ==
    IF auth_string = <<>> THEN Ok(None)
    ELSE LET ur == split_userinfo(auth_string)
             userinfo == ur[1]
             rest == ur[2]
             hp == IF IsNone(rest) THEN Ok(<<None, None>>) ELSE split_host(Unwrap(rest))
         IN IF ~IsOk(hp) THEN hp
            ELSE LET host == hp.val[1]
                     port == hp.val[2]
                     parsed_userinfo ==
                         IF IsNone(userinfo) THEN Ok(None)
                         ELSE LET r == parse_userinfo(Unwrap(userinfo))
                              IN IF IsOk(r) THEN Ok(Some(r.val)) ELSE r
                     parsed_host ==
                         IF IsNone(host) THEN Ok(None)
                         ELSE LET r == parse_host(Unwrap(host))
                              IN IF IsOk(r) THEN Ok(Some(r.val)) ELSE r
                     parsed_port ==
                         IF IsNone(port) THEN Ok(None)
                         ELSE LET r == parse_port(Unwrap(port))
                              IN IF IsOk(r) THEN Ok(Some(r.val)) ELSE r
                 IN IF ~IsOk(parsed_userinfo) THEN parsed_userinfo
                    ELSE IF ~IsOk(parsed_host) THEN parsed_host
                    ELSE IF ~IsOk(parsed_port) THEN parsed_port
                    ELSE IF IsNone(parsed_userinfo.val) /\ IsNone(parsed_host.val)
                            /\ IsNone(parsed_port.val)
                    THEN Ok(None)
                    ELSE Ok(Some(MkAuthority(parsed_userinfo.val, parsed_host.val,
                                             parsed_port.val)))

\* Authority::stringify: Ok(Option<String>) or Err.
AuthorityStringify(self) ==
    IF IsNone(self.port) /\ IsNone(self.host) /\ IsNone(self.userinfo) THEN Ok(None)
    ELSE LET ui == IF IsNone(self.userinfo) THEN Ok(<<>>)
                   ELSE LET r == EncodeStr(Unwrap(self.userinfo), "USER_INFO")
                        IN IF IsOk(r) THEN Ok(Append(r.val, AT)) ELSE r
             ho == IF IsNone(self.host) THEN Ok(<<>>)
                   ELSE IF StartsWith(Unwrap(self.host), LBRACKET) THEN Ok(Unwrap(self.host))
                   ELSE EncodeStr(Unwrap(self.host), "REG_NAME")
             po == IF IsNone(self.port) THEN <<>>
                   ELSE <<COLON>> \o ToDecimal(Unwrap(self.port))
         IN IF ~IsOk(ui) THEN ui
            ELSE IF ~IsOk(ho) THEN ho
            ELSE Ok(Some(ui.val \o ho.val \o po))

(***************************************************************************)
(* uri.rs                                                                  *)
(***************************************************************************)
\* The struct Uri.
MkUri(scheme, authority, path, query, fragment) ==
    [scheme |-> scheme, authority |-> authority, path |-> path,
     query |-> query, fragment |-> fragment]

\* A split_scheme that looks for ':' in the whole text.
split_scheme_whole_text(uri_string) ==
    LET scheme_end == Find(uri_string, COLON)
    IN IF scheme_end = -1 THEN Ok(<<None, uri_string>>)
       ELSE IF Take(uri_string, scheme_end) = <<>> THEN Err("EmptyScheme")
       ELSE Ok(<<Some(Take(uri_string, scheme_end)), Drop(uri_string, scheme_end + 1)>>)

\* Uri::split_scheme: Ok(<<scheme, without_scheme>>) or Err.
split_scheme(uri_string) ==
    LET slash == Find(uri_string, SLASH)
        delim == IF slash = -1 THEN Len(uri_string) ELSE slash
        scheme_end == Find(Take(uri_string, delim), COLON)
    IN IF scheme_end = -1 THEN Ok(<<None, uri_string>>)
       ELSE IF Take(uri_string, scheme_end) = <<>> THEN Err("EmptyScheme")
       ELSE Ok(<<Some(Take(uri_string, scheme_end)), Drop(uri_string, scheme_end + 1)>>)

\* A split on the first '#' instead of the last.
split_fragment_first(without_scheme) ==
    LET hash == Find(without_scheme, HASH)
    IN IF hash = -1 THEN <<None, without_scheme>>
       ELSE <<Some(Drop(without_scheme, hash + 1)), Take(without_scheme, hash)>>

\* Uri::split_fragment: <<fragment, rest>>.
split_fragment(without_scheme) ==
    LET hash == RFind(without_scheme, HASH)
    IN IF hash = -1 THEN <<None, without_scheme>>
       ELSE <<Some(Drop(without_scheme, hash + 1)), Take(without_scheme, hash)>>

\* A split on the last '?' instead of the first.
split_query_last(authority_path_query) ==
    LET mark == RFind(authority_path_query, QUESTION)
    IN IF mark = -1 THEN <<None, authority_path_query>>
       ELSE <<Some(Drop(authority_path_query, mark + 1)), Take(authority_path_query, mark)>>

\* Uri::split_query: <<query, rest>>.
split_query(authority_path_query) ==
    LET mark == Find(authority_path_query, QUESTION)
    IN IF mark = -1 THEN <<None, authority_path_query>>
       ELSE <<Some(Drop(authority_path_query, mark + 1)), Take(authority_path_query, mark)>>

\* Uri::split_authority_and_path: Ok(<<authority, path>>) or Err.
split_authority_and_path(authority_path) ==
    IF ~(Len(authority_path) >= 2 /\ authority_path[1] = SLASH /\ authority_path[2] = SLASH)
    THEN Ok(<<None, authority_path>>)
    ELSE LET stripped_authority_path == Drop(authority_path, 2)
             slash == Find(stripped_authority_path, SLASH)
             auth_end == IF slash = -1 THEN Len(stripped_authority_path) ELSE slash
         IN IF stripped_authority_path = <<>> THEN Err("EmptyAuthority")
            ELSE IF auth_end = 0 THEN Err("EmptyAuthority")
            ELSE IF auth_end = Len(stripped_authority_path)
            THEN Ok(<<Some(stripped_authority_path), <<>> >>)
            ELSE Ok(<<Some(Take(stripped_authority_path, auth_end)),
                      Drop(stripped_authority_path, auth_end)>>)

\* A parse_scheme that tests the first character before it looks for '%'.
parse_scheme_first_character_first(scheme_string) ==
    IF scheme_string = <<>> THEN Err("EmptyScheme")
    ELSE IF scheme_string[1] \notin ALPHA THEN Err("SchemeIllegalFirstCharacter")
    ELSE IF Contains(scheme_string, PERCENT) THEN Err("SchemeIllegalCharacter")
    ELSE LET r == DecodeStr(scheme_string, "SCHEME")
         IN IF IsErr(r)
            THEN IF r.err = "IllegalCharacter" THEN Err("SchemeIllegalCharacter") ELSE r
            ELSE Ok(ToLower(r.val))

\* Uri::parse_scheme
parse_scheme(scheme_string) ==
    IF Contains(scheme_string, PERCENT) THEN Err("SchemeIllegalCharacter")
    ELSE IF scheme_string = <<>> THEN Err("EmptyScheme")
    ELSE IF scheme_string[1] \notin ALPHA THEN Err("SchemeIllegalFirstCharacter")
    ELSE LET r == DecodeStr(scheme_string, "SCHEME")
         IN IF IsErr(r)
            THEN IF r.err = "IllegalCharacter" THEN Err("SchemeIllegalCharacter") ELSE r
            ELSE Ok(ToLower(r.val))

\* A parse_path that does not test how the path starts.
parse_path_any_start(path_string) ==
    LET r == DecodeStr(path_string, "PATH")
    IN IF IsErr(r) /\ r.err = "IllegalCharacter" THEN Err("PathIllegalCharacter") ELSE r

\* Uri::parse_path
parse_path(path_string) ==
    IF Len(path_string) >= 2 /\ path_string[1] = SLASH /\ path_string[2] = SLASH
    THEN Err("PathIllegalStart")
    ELSE LET r == DecodeStr(path_string, "PATH")
         IN IF IsErr(r) /\ r.err = "IllegalCharacter" THEN Err("PathIllegalCharacter") ELSE r

\* Uri::parse_query
parse_query(query_string) ==
    LET r == DecodeStr(query_string, "QUERY")
    IN IF IsErr(r) /\ r.err = "IllegalCharacter" THEN Err("QueryIllegalCharacter") ELSE r

\* Uri::parse_fragment
parse_fragment(fragment_string) ==
    LET r == DecodeStr(fragment_string, "FRAGMENT")
    IN IF IsErr(r) /\ r.err = "IllegalCharacter" THEN Err("FragmentIllegalCharacter") ELSE r

\* A Uri::parse that reports an invalid query before an invalid fragment.
UriParse_query_before_fragment(uri_string) ==
    IF uri_string = <<>> THEN Ok(MkUri(None, None, <<>>, None, None))
    ELSE LET ss == split_scheme(uri_string)
         IN IF ~IsOk(ss) THEN ss
            ELSE LET scheme == ss.val[1]
                     fr == split_fragment(ss.val[2])
                     fragment == fr[1]
                     qr == split_query(fr[2])
                     query == qr[1]
                     ap == split_authority_and_path(qr[2])
                 IN IF ~IsOk(ap) THEN ap
                    ELSE LET authority == ap.val[1]
                             path == ap.val[2]
                             parsed_scheme ==
                                 IF IsNone(scheme) THEN Ok(None)
                                 ELSE LET r == parse_scheme(Unwrap(scheme))
                                      IN IF IsOk(r) THEN Ok(Some(r.val)) ELSE r
                             parsed_fragment ==
                                 IF IsNone(fragment) THEN Ok(None)
                                 ELSE LET r == parse_fragment(Unwrap(fragment))
                                      IN IF IsOk(r) THEN Ok(Some(r.val)) ELSE r
                             parsed_query ==
                                 IF IsNone(query) THEN Ok(None)
                                 ELSE LET r == parse_query(Unwrap(query))
                                      IN IF IsOk(r) THEN Ok(Some(r.val)) ELSE r
                             parsed_path == parse_path(path)
                             parsed_authority ==
                                 IF IsNone(authority) THEN Ok(None)
                                 ELSE AuthorityParse(Unwrap(authority))
                         IN IF ~IsOk(parsed_scheme) THEN parsed_scheme
                            ELSE IF ~IsOk(parsed_query) THEN parsed_query
                            ELSE IF ~IsOk(parsed_fragment) THEN parsed_fragment
                            ELSE IF ~IsOk(parsed_path) THEN parsed_path
                            ELSE IF ~IsOk(parsed_authority) THEN parsed_authority
                            ELSE Ok(MkUri(parsed_scheme.val, parsed_authority.val,
                                          parsed_path.val, parsed_query.val,
                                          parsed_fragment.val))

\* Uri::parse: Ok(Uri), Err or Panic.
UriParse(uri_string) ==
    IF uri_string = <<>> THEN Ok(MkUri(None, None, <<>>, None, None))
    ELSE LET ss == split_scheme(uri_string)
         IN IF ~IsOk(ss) THEN ss
            ELSE LET scheme == ss.val[1]
                     fr == split_fragment(ss.val[2])
                     fragment == fr[1]
                     qr == split_query(fr[2])
                     query == qr[1]
                     ap == split_authority_and_path(qr[2])
                 IN IF ~IsOk(ap) THEN ap
                    ELSE LET authority == ap.val[1]
                             path == ap.val[2]
                             parsed_scheme ==
                                 IF IsNone(scheme) THEN Ok(None)
                                 ELSE LET r == parse_scheme(Unwrap(scheme))
                                      IN IF IsOk(r) THEN Ok(Some(r.val)) ELSE r
                             parsed_fragment ==
                                 IF IsNone(fragment) THEN Ok(None)
                                 ELSE LET r == parse_fragment(Unwrap(fragment))
                                      IN IF IsOk(r) THEN Ok(Some(r.val)) ELSE r
                             parsed_query ==
                                 IF IsNone(query) THEN Ok(None)
                                 ELSE LET r == parse_query(Unwrap(query))
                                      IN IF IsOk(r) THEN Ok(Some(r.val)) ELSE r
                             parsed_path == parse_path(path)
                             parsed_authority ==
                                 IF IsNone(authority) THEN Ok(None)
                                 ELSE AuthorityParse(Unwrap(authority))
                         IN IF ~IsOk(parsed_scheme) THEN parsed_scheme
                            ELSE IF ~IsOk(parsed_fragment) THEN parsed_fragment
                            ELSE IF ~IsOk(parsed_query) THEN parsed_query
                            ELSE IF ~IsOk(parsed_path) THEN parsed_path
                            ELSE IF ~IsOk(parsed_authority) THEN parsed_authority
                            ELSE Ok(MkUri(parsed_scheme.val, parsed_authority.val,
                                          parsed_path.val, parsed_query.val,
                                          parsed_fragment.val))

\* Uri::stringify: Ok(String) or Err.
UriStringify(self) ==
    LET sch == IF IsNone(self.scheme) THEN Ok(<<>>)
               ELSE LET r == EncodeStr(Unwrap(self.scheme), "SCHEME")
                    IN IF IsOk(r) THEN Ok(Append(r.val, COLON)) ELSE r
        aus == IF IsNone(self.authority) THEN Ok(None)
               ELSE AuthorityStringify(Unwrap(self.authority))
        au == IF ~IsOk(aus) THEN aus
              ELSE IF IsNone(aus.val) THEN Ok(<<>>)
              ELSE Ok(<<SLASH, SLASH>> \o Unwrap(aus.val))
        pa == EncodeStr(self.path, "PATH")
        qu == IF IsNone(self.query) THEN Ok(<<>>)
              ELSE LET r == EncodeStr(Unwrap(self.query), "QUERY")
                   IN IF IsOk(r) THEN Ok(<<QUESTION>> \o r.val) ELSE r
        fr == IF IsNone(self.fragment) THEN Ok(<<>>)
              ELSE LET r == EncodeStr(Unwrap(self.fragment), "FRAGMENT")
                   IN IF IsOk(r) THEN Ok(<<HASH>> \o r.val) ELSE r
    IN IF ~IsOk(sch) THEN sch
       ELSE IF ~IsOk(au) THEN au
       ELSE IF ~IsOk(pa) THEN pa
       ELSE IF ~IsOk(qu) THEN qu
       ELSE IF ~IsOk(fr) THEN fr
       ELSE Ok(sch.val \o au.val \o pa.val \o qu.val \o fr.val)

(***************************************************************************)
(* Bounds and input sets.                                                  *)
(***************************************************************************)
\* Longest input of a Decoder or an Encoder.
MaxCodecLen == 3

\* Calls of decode() or encode() on one instance.
MaxCalls == 2

\* Longest literal given to is_valid_ip_v6.
MaxV6Len == 7

\* Longest literal given to is_valid_ip_v_future.
MaxVFutureLen == 4

\* Longest free-form text given to Uri::parse or Authority::parse.
MaxUriLen == 5

\* All strings over chars of length at most n.
StringsUpTo(chars, n) == UNION {[1..k -> chars] : k \in 0..n}

\* CR, ' ', '%', '4', '8', 'G', DEL, U+0081, U+0141
CodecChars == {13, 32, PERCENT, 52, 56, 71, 127, 129, 321}

\* ':', 'a', 'g'
V6Chars == {COLON, 97, 103}

\* n groups "a" joined by ':'.
RECURSIVE Groups(_)
Groups(n) == IF n <= 1 THEN <<97>> ELSE <<97, COLON>> \o Groups(n - 1)

\* Literals of 7, 8 and 9 groups, and of 7 and 8 groups after or around "::":
\* "a:a:a:a:a:a:a", "a:a:a:a:a:a:a:a", "a:a:a:a:a:a:a:a:a", "a::a:a:a:a:a:a",
\* "::a:a:a:a:a:a:a", "a:a:a:a:a:a:a:g".
LongV6Literals ==
    {Groups(7), Groups(8), Groups(9),
     <<97, COLON, COLON>> \o Groups(6),
     <<COLON, COLON>> \o Groups(7),
     Groups(7) \o <<COLON, 103>>}

\* 'v', 'V', 'a', '.', '%', ':', '#', U+00E9
VFutureChars == {LOWER_V, UPPER_V, 97, DOT, PERCENT, COLON, HASH, 233}

\* 'A', '2', ':', '/', '?', '#', '@', '%', U+00E9
UriChars == {65, 50, COLON, SLASH, QUESTION, HASH, AT, PERCENT, 233}

\* 'A', '2', ':', '@', '%', '[', ']', U+00E9
AuthorityChars == {65, 50, COLON, AT, PERCENT, LBRACKET, RBRACKET, 233}

\* The components a well-formed URI is assembled from: scheme, userinfo, host,
\* port numeral, path, query and fragment.
\* schemes "A", "hT+"; userinfos "u", "8!"; hosts "h", "8.8"; ports "0", "080",
\* "65535"; paths "", "/", "/p/:@"; queries "", "q?=/", ":"; fragments "", "f?/".
WellFormedParts ==
    [scheme : {<<65>>, <<104, 84, 43>>},
     userinfo : {<<117>>, <<56, 33>>},
     host : {<<104>>, <<56, 46, 56>>},
     port : {<<48>>, <<48, 56, 48>>, <<54, 53, 53, 51, 53>>},
     path : {<<>>, <<47>>, <<47, 112, 47, 58, 64>>},
     query : {<<>>, <<113, 63, 61, 47>>, <<58>>},
     fragment : {<<>>, <<102, 63, 47>>}]

\* scheme ":" "//" userinfo "@" host ":" port path "?" query "#" fragment
Assemble(p) ==
    p.scheme \o <<COLON, SLASH, SLASH>> \o p.userinfo \o <<AT>> \o p.host \o <<COLON>>
        \o p.port \o p.path \o <<QUESTION>> \o p.query \o <<HASH>> \o p.fragment

\* URIs with an IP-literal host: "//[::]", "A://[::8]:8/", "//[v8.A]", "//[::A]?#".
LiteralHostUris ==
    {<<47, 47, 91, 58, 58, 93>>,
     <<65, 58, 47, 47, 91, 58, 58, 56, 93, 58, 56, 47>>,
     <<47, 47, 91, 118, 56, 46, 65, 93>>,
     <<47, 47, 91, 58, 58, 65, 93, 63, 35>>}

\* Longest interior of a bracketed host given to Authority::parse.
MaxLiteralLen == 4

\* ':', 'A', 'G', 'v', 'V', '.', U+00E9
LiteralChars == {COLON, 65, 71, LOWER_V, UPPER_V, DOT, 233}

\* Authority texts with a bracketed host: "" or "u@", then '[' interior ']',
\* then "", ":2" or "A".
BracketedHosts ==
    {pre \o <<LBRACKET>> \o x \o <<RBRACKET>> \o post :
        pre \in {<<>>, <<117, AT>>},
        x \in StringsUpTo(LiteralChars, MaxLiteralLen),
        post \in {<<>>, <<COLON, 50>>, <<65>>}}

\* Longest free-form port text given to Authority::parse.
MaxPortLen == 3

\* '+', '-', '2', '6', '%'
PortChars == {PLUS, 45, 50, 54, PERCENT}

\* "65535", "65536", "+65535", "00080"
LongPorts ==
    {<<54, 53, 53, 51, 53>>, <<54, 53, 53, 51, 54>>, <<PLUS, 54, 53, 53, 51, 53>>,
     <<48, 48, 48, 56, 48>>}

\* Authority texts host ':' port with host "" or "A".
PortAuthorities ==
    {h \o <<COLON>> \o p :
        h \in {<<>>, <<65>>},
        p \in StringsUpTo(PortChars, MaxPortLen) \cup LongPorts}

\* '0', '2', '4', '5', 'B', 'D'
EscapeDigits == {48, 50, 52, 53, 66, 68}

\* Authority texts with one percent-escape: "" or "A@", then '%' and two
\* hexadecimal digits, then "", "@A" or ":2".
EscapedAuthorities ==
    {pre \o <<PERCENT, h1, h2>> \o post :
        pre \in {<<>>, <<65, AT>>},
        h1 \in EscapeDigits, h2 \in EscapeDigits,
        post \in {<<>>, <<AT, 65>>, <<COLON, 50>>}}

\* '0', '2', '3', '5', 'A', 'B', 'F'
UriEscapeDigits == {48, 50, 51, 53, 65, 66, 70}

\* Uri texts with one percent-escape: "", "/", "//", "A", "?" or "#", then '%'
\* and two hexadecimal digits, then "", "a" or "/b".
EscapedUris ==
    {pre \o <<PERCENT, h1, h2>> \o post :
        pre \in {<<>>, <<SLASH>>, <<SLASH, SLASH>>, <<65>>, <<QUESTION>>, <<HASH>>},
        h1 \in UriEscapeDigits, h2 \in UriEscapeDigits,
        post \in {<<>>, <<97>>, <<SLASH, 98>>}}

(***************************************************************************)
(* State.                                                                  *)
(***************************************************************************)
VARIABLES
    entry,      \* the public function the caller hands text to
    text,       \* the caller's input string
    parts,      \* Some(components) when the caller assembled text from them
    decoder,    \* Option<Decoder>: the caller's Decoder instance
    encoder,    \* Option<Encoder>: the caller's Encoder instance
    decoded,    \* the results of the calls of decoder.decode(), in order
    encoded,    \* the results of the calls of encoder.encode(), in order
    valid,      \* Option<bool>: what the validator returned
    uri,        \* Option<Result<Uri>>: what Uri::parse returned
    uri_str,    \* Option<Result<String>>: what stringify() of the parsed Uri returned
    authority,  \* Option<Result<Option<Authority>>>: what Authority::parse returned
    auth_str,   \* Option<Result<Option<String>>>: stringify() of the parsed Authority
    reparsed,   \* Option<Result<Option<Authority>>>: Authority::parse of that string
    uri_reparsed \* Option<Result<Uri>>: Uri::parse of the string uri_str holds

vars == <<entry, text, parts, decoder, encoder, decoded, encoded, valid,
          uri, uri_str, authority, auth_str, reparsed, uri_reparsed>>

codecVars == <<decoder, encoder, decoded, encoded>>

parseVars == <<uri, uri_str, authority, auth_str, reparsed, uri_reparsed>>

\* Nothing has been called yet.
Idle ==
    /\ decoded = <<>> /\ encoded = <<>> /\ valid = None
    /\ uri = None /\ uri_str = None /\ authority = None /\ auth_str = None
    /\ reparsed = None /\ uri_reparsed = None

\* The caller builds a Decoder, or an Encoder, over a text and a class.
InitCodec ==
    /\ text \in StringsUpTo(CodecChars, MaxCodecLen)
    /\ parts = None
    /\ \E cls \in ClassNames :
         \/ /\ entry = "Decoder"
            /\ decoder = Some(NewDecoder(text, cls))
            /\ encoder = None
         \/ /\ entry = "Encoder"
            /\ encoder = Some(NewEncoder(text, cls))
            /\ decoder = None
    /\ Idle

\* The caller holds a literal for one of the two validators.
InitIp ==
    /\ \/ /\ entry = "is_valid_ip_v6"
          /\ text \in StringsUpTo(V6Chars, MaxV6Len) \cup LongV6Literals
       \/ entry = "is_valid_ip_v_future" /\ text \in StringsUpTo(VFutureChars, MaxVFutureLen)
    /\ parts = None /\ decoder = None /\ encoder = None
    /\ Idle

\* The caller holds a text for Uri::parse or for Authority::parse.
InitParse ==
    /\ \/ /\ entry = "Uri::parse"
          /\ text \in StringsUpTo(UriChars, MaxUriLen) \cup LiteralHostUris
          /\ parts = None
       \/ /\ entry = "Uri::parse"
          /\ parts \in {Some(p) : p \in WellFormedParts}
          /\ text = Assemble(Unwrap(parts))
       \/ /\ entry = "Uri::parse"
          /\ \E a \in StringsUpTo(AuthorityChars, MaxUriLen) : text = <<SLASH, SLASH>> \o a
          /\ parts = None
       \/ /\ entry = "Uri::parse"
          /\ text \in EscapedUris
          /\ parts = None
       \/ /\ entry = "Authority::parse"
          /\ text \in StringsUpTo(AuthorityChars, MaxUriLen)
          /\ parts = None
       \/ /\ entry = "Authority::parse"
          /\ text \in BracketedHosts \cup PortAuthorities \cup EscapedAuthorities
          /\ parts = None
    /\ decoder = None /\ encoder = None
    /\ Idle

(***************************************************************************)
(* Operations.                                                             *)
(***************************************************************************)
\* decoder.decode()
CallDecode ==
    /\ IsSome(decoder)
    /\ Len(decoded) < MaxCalls
    /\ LET r == Decode(Unwrap(decoder))
       IN /\ decoder' = Some(r.self)
          /\ decoded' = Append(decoded, r.res)
    /\ UNCHANGED <<entry, text, parts, encoder, encoded, valid, parseVars>>

\* encoder.encode()
CallEncode ==
    /\ IsSome(encoder)
    /\ Len(encoded) < MaxCalls
    /\ LET r == Encode(Unwrap(encoder))
       IN /\ encoder' = Some(r.self)
          /\ encoded' = Append(encoded, r.res)
    /\ UNCHANGED <<entry, text, parts, decoder, decoded, valid, parseVars>>

\* Decoder::new on the string an encode() returned, with the encoder's class.
DecodeEncoded ==
    /\ entry = "Encoder"
    /\ decoder = None
    /\ encoded # <<>> /\ IsOk(encoded[1])
    /\ decoder' = Some(NewDecoder(encoded[1].val, Unwrap(encoder).viable_chars))
    /\ UNCHANGED <<entry, text, parts, encoder, decoded, encoded, valid, parseVars>>

\* ip::is_valid_ip_v6(text)
CallIsValidIpV6 ==
    /\ entry = "is_valid_ip_v6"
    /\ valid = None
    /\ valid' = Some(is_valid_ip_v6(text))
    /\ UNCHANGED <<entry, text, parts, codecVars, parseVars>>

\* ip::is_valid_ip_v_future(text)
CallIsValidIpVFuture ==
    /\ entry = "is_valid_ip_v_future"
    /\ valid = None
    /\ valid' = Some(is_valid_ip_v_future(text))
    /\ UNCHANGED <<entry, text, parts, codecVars, parseVars>>

\* Uri::parse(text)
CallUriParse ==
    /\ entry = "Uri::parse"
    /\ uri = None
    /\ uri' = Some(UriParse(text))
    /\ UNCHANGED <<entry, text, parts, codecVars, valid, uri_str, authority, auth_str, reparsed,
                   uri_reparsed>>

\* stringify() on the Uri that Uri::parse returned
CallUriStringify ==
    /\ IsSome(uri) /\ IsOk(Unwrap(uri))
    /\ uri_str = None
    /\ uri_str' = Some(UriStringify(Unwrap(uri).val))
    /\ UNCHANGED <<entry, text, parts, codecVars, valid, uri, authority, auth_str, reparsed,
                   uri_reparsed>>

\* Authority::parse(text)
CallAuthorityParse ==
    /\ entry = "Authority::parse"
    /\ authority = None
    /\ authority' = Some(AuthorityParse(text))
    /\ UNCHANGED <<entry, text, parts, codecVars, valid, uri, uri_str, auth_str, reparsed,
                   uri_reparsed>>

\* stringify() on the Authority that Authority::parse returned
CallAuthorityStringify ==
    /\ IsSome(authority) /\ IsOk(Unwrap(authority)) /\ IsSome(Unwrap(authority).val)
    /\ auth_str = None
    /\ auth_str' = Some(AuthorityStringify(Unwrap(Unwrap(authority).val)))
    /\ UNCHANGED <<entry, text, parts, codecVars, valid, uri, uri_str, authority, reparsed,
                   uri_reparsed>>

\* Authority::parse on the string that stringify() returned
CallAuthorityReparse ==
    /\ IsSome(auth_str) /\ IsOk(Unwrap(auth_str)) /\ IsSome(Unwrap(auth_str).val)
    /\ reparsed = None
    /\ reparsed' = Some(AuthorityParse(Unwrap(Unwrap(auth_str).val)))
    /\ UNCHANGED <<entry, text, parts, codecVars, valid, uri, uri_str, authority, auth_str,
                   uri_reparsed>>

\* Uri::parse on the string that stringify() returned
CallUriReparse ==
    /\ IsSome(uri_str) /\ IsOk(Unwrap(uri_str))
    /\ uri_reparsed = None
    /\ uri_reparsed' = Some(UriParse(Unwrap(uri_str).val))
    /\ UNCHANGED <<entry, text, parts, codecVars, valid, uri, uri_str, authority, auth_str,
                   reparsed>>

NextCodec == CallDecode \/ CallEncode \/ DecodeEncoded

NextIp == CallIsValidIpV6 \/ CallIsValidIpVFuture

NextParse ==
    \/ CallUriParse \/ CallUriStringify \/ CallUriReparse
    \/ CallAuthorityParse \/ CallAuthorityStringify \/ CallAuthorityReparse

\* The percent codec: one Decoder or Encoder instance and its calls.
SpecCodec == InitCodec /\ [][NextCodec]_vars

\* The IP-literal validators.
SpecIp == InitIp /\ [][NextIp]_vars

\* Uri::parse, Authority::parse and the stringify of what they return.
SpecParse == InitParse /\ [][NextParse]_vars

Init == InitCodec \/ InitIp \/ InitParse

Next == NextCodec \/ NextIp \/ NextParse

\* The whole crate.
Spec == Init /\ [][Next]_vars

(***************************************************************************)
(* What the specification says of the codec, written from its words.       *)
(***************************************************************************)
\* Every character of s has a code point of at most 0x7F.
IsAscii(s) == \A i \in 1..Len(s) : s[i] <= 127

\* The hexadecimal digits in order: "0123456789ABCDEF".
UpperHexDigits == <<48, 49, 50, 51, 52, 53, 54, 55, 56, 57, 65, 66, 67, 68, 69, 70>>

\* '%' and the two uppercase hexadecimal digits, zero-padded, of byte b.
PercentTriple(b) == <<PERCENT, UpperHexDigits[(b \div 16) + 1], UpperHexDigits[(b % 16) + 1]>>

\* The encoding of an ASCII string: members of the class as they are, every
\* other character as its percent-triple.
RECURSIVE ExpectedEncoding(_, _)
ExpectedEncoding(s, class) ==
    IF s = <<>> THEN <<>>
    ELSE (IF s[1] \in class THEN <<s[1]>> ELSE PercentTriple(s[1]))
             \o ExpectedEncoding(Drop(s, 1), class)

\* The value of a hexadecimal digit, by its place among the digits.
HexValue(c) ==
    LET u == IF c \in 97..102 THEN c - 32 ELSE c
    IN (CHOOSE i \in 1..16 : UpperHexDigits[i] = u) - 1

\* The decoding of s, scanned left to right: the first failure is the result.
RECURSIVE ExpectedDecoding(_, _)
ExpectedDecoding(s, class) ==
    IF s = <<>> THEN Ok(<<>>)
    ELSE IF s[1] = PERCENT
    THEN IF Len(s) >= 3 /\ s[2] \in HEXDIG /\ s[3] \in HEXDIG
            /\ 16 * HexValue(s[2]) + HexValue(s[3]) <= 127
         THEN LET rest == ExpectedDecoding(Drop(s, 3), class)
              IN IF IsOk(rest)
                 THEN Ok(<<16 * HexValue(s[2]) + HexValue(s[3])>> \o rest.val)
                 ELSE rest
         ELSE Err("IllegalPercentEncoding")
    ELSE IF s[1] \in class
    THEN LET rest == ExpectedDecoding(Drop(s, 1), class)
         IN IF IsOk(rest) THEN Ok(<<s[1]>> \o rest.val) ELSE rest
    ELSE Err("IllegalCharacter")

\* The string the caller's Decoder was built over.
DecoderInput == IF entry = "Encoder" THEN encoded[1].val ELSE text

(***************************************************************************)
(* Claims about the codec, checked under SpecCodec.                         *)
(***************************************************************************)
\* C2: for every class and every string s of characters <= 0x7F, a fresh
\* Encoder run on s and then a fresh Decoder run on the encoder's output, with
\* the same class, return Ok(s).
C2_DecodeEncodeInverse ==
    (entry = "Encoder" /\ IsAscii(text) /\ decoded # <<>>) => decoded[1] = Ok(text)

\* C3: a second call of decode() or encode() on the same instance returns the
\* same result, Ok string or error, as the first call on it.
C3_SecondCallSameResult ==
    /\ \A i \in 2..Len(decoded) : decoded[i] = decoded[1]
    /\ \A i \in 2..Len(encoded) : encoded[i] = encoded[1]

\* C6: the encoder emits each member of the class as it is and each other
\* character with code point <= 0x7F as '%' and exactly two uppercase
\* hexadecimal digits, zero-padded.
C6_EncoderOutputFormat ==
    (entry = "Encoder" /\ IsAscii(text) /\ encoded # <<>>)
        => encoded[1] = Ok(ExpectedEncoding(text, ClassSet(Unwrap(encoder).viable_chars)))

\* C7: encode() fails with IllegalCharacter on every input that holds a
\* character outside the class with a code point above 0x7F.
C7_EncoderRefusesNonAscii ==
    (/\ entry = "Encoder"
     /\ encoded # <<>>
     /\ \E i \in 1..Len(text) :
           text[i] > 127 /\ text[i] \notin ClassSet(Unwrap(encoder).viable_chars))
        => encoded[1] = Err("IllegalCharacter")

\* C8: decode() scans left to right; a '%' must be followed by two HEXDIG that
\* denote a byte <= 0x7F, else IllegalPercentEncoding; the decoded character is
\* appended without a class check; any other character is appended when it is in
\* the class, else IllegalCharacter; on success the output is what was appended.
C8_DecoderResult ==
    decoded # <<>>
        => decoded[1] = ExpectedDecoding(DecoderInput, ClassSet(Unwrap(decoder).viable_chars))

\* C8's case: a decode() that succeeded on an escape of a character outside the
\* class ("%44" is 'D', which is no DIGIT).
C8_Witness ==
    /\ entry = "Decoder"
    /\ decoded # <<>> /\ IsOk(decoded[1])
    /\ \E i \in 1..Len(decoded[1].val) :
          decoded[1].val[i] \notin ClassSet(Unwrap(decoder).viable_chars)

(***************************************************************************)
(* Claims about the IP-literal validators, checked under SpecIp.            *)
(***************************************************************************)
\* s holds a run of 5 or more consecutive HEXDIG characters.
HasLongGroup(s) ==
    \E i \in 1..(Len(s) - 4) : \A k \in i..(i + 4) : s[k] \in HEXDIG

\* C9: is_valid_ipv6 rejects every literal that holds a group of more than 4
\* consecutive hexadecimal digits, whatever the rest of the literal is.
C9_RejectsLongGroup ==
    (entry = "is_valid_ip_v6" /\ IsSome(valid) /\ HasLongGroup(text))
        => Unwrap(valid) = FALSE

\* The IPvFuture production as the specification words it.
VFutureExpected(s) ==
    /\ Len(s) >= 3
    /\ s[1] \in {LOWER_V, UPPER_V}
    /\ s[2] \in HEXDIG
    /\ s[3] = DOT
    /\ \A i \in 1..Len(s) : s[i] # PERCENT
    /\ \A i \in 4..Len(s) : s[i] \in UNRESERVED \cup SUB_DELIMS \cup {COLON}

Lowercase(s) == [i \in 1..Len(s) |-> IF s[i] >= 65 /\ s[i] <= 90 THEN s[i] + 32 ELSE s[i]]

\* s with only its scheme (the text before a ':' that precedes every '/')
\* folded to lowercase.
FoldScheme(s) ==
    LET colons == {i \in 1..Len(s) : s[i] = COLON /\ \A j \in 1..i : s[j] # SLASH}
    IN IF colons = {} THEN s
       ELSE LET c == CHOOSE i \in colons : \A j \in colons : i <= j
            IN Lowercase(SubSeq(s, 1, c - 1)) \o SubSeq(s, c, Len(s))

\* The raw pieces Uri::parse cuts an accepted text into.
RawPieces(s) ==
    LET ss == split_scheme(s)
        fr == split_fragment(ss.val[2])
        qr == split_query(fr[2])
        ap == split_authority_and_path(qr[2])
    IN [scheme |-> ss.val[1], fragment |-> fr[1], query |-> qr[1],
        authority |-> ap.val[1], path |-> ap.val[2]]

\* Every percent-escape in raw is the escape of a member of class.
EscapesWithin(raw, class) ==
    \A i \in 1..Len(raw) :
        raw[i] = PERCENT =>
            /\ i + 2 <= Len(raw)
            /\ raw[i + 1] \in HEXDIG /\ raw[i + 2] \in HEXDIG
            /\ 16 * HexValue(raw[i + 1]) + HexValue(raw[i + 2]) \in class

\* s holds no percent-escape of a character outside its component's class.
LegalEscapesOnly(s) ==
    \/ s = <<>>
    \/ LET r == RawPieces(s)
       IN /\ IsSome(r.authority) => EscapesWithin(Unwrap(r.authority), USER_INFO)
          /\ EscapesWithin(r.path, PATH)
          /\ IsSome(r.query) => EscapesWithin(Unwrap(r.query), QUERY)
          /\ IsSome(r.fragment) => EscapesWithin(Unwrap(r.fragment), FRAGMENT)

\* The part of an authority text after its port separator: Some(port text), or
\* None when there is no separator.  The separator is the first ':' after the
\* first '@', and after the first ']' when the host part starts with '['.
PortText(a) ==
    LET ats == {i \in 1..Len(a) : a[i] = AT}
        at == IF ats = {} THEN 0 ELSE CHOOSE i \in ats : \A j \in ats : i <= j
        closes == {i \in (at + 1)..Len(a) : a[i] = RBRACKET}
        from == IF at < Len(a) /\ a[at + 1] = LBRACKET /\ closes # {}
                THEN CHOOSE i \in closes : \A j \in closes : i <= j
                ELSE at
        seps == {i \in (from + 1)..Len(a) : a[i] = COLON}
    IN IF seps = {} THEN None
       ELSE Some(SubSeq(a, (CHOOSE i \in seps : \A j \in seps : i <= j) + 1, Len(a)))

\* A decimal numeral as to_string writes it: digits only, no leading zero.
IsCanonicalNumeral(n) ==
    /\ n # <<>>
    /\ \A i \in 1..Len(n) : n[i] \in DIGIT
    /\ Len(n) = 1 \/ n[1] # 48

\* The authority text of s, if any, is written as stringify writes it: it does
\* not begin with '@' and a port separator is followed by a canonical numeral.
AuthorityAsWritten(s) ==
    \/ s = <<>>
    \/ LET raw == RawPieces(s).authority
       IN IsSome(raw) =>
            /\ Unwrap(raw)[1] # AT
            /\ IsSome(PortText(Unwrap(raw))) => IsCanonicalNumeral(Unwrap(PortText(Unwrap(raw))))

\* C1 as stated: for every accepted s without percent-escapes of characters
\* outside the component's class (so every accepted s without '%'),
\* parse(s).stringify() is Ok(s with its scheme folded to lowercase).
C1_RoundTripAsStated ==
    (entry = "Uri::parse" /\ IsSome(uri_str) /\ LegalEscapesOnly(text))
        => Unwrap(uri_str) = Ok(FoldScheme(text))

\* C1 as amended: for every accepted s that holds no '%' at all and whose
\* authority text, if any, does not begin with '@' and has after its port
\* separator a decimal numeral without '+' or leading zero,
\* parse(s).stringify() is Ok(s with only its scheme folded to lowercase).
C1_RoundTrip ==
    (/\ entry = "Uri::parse"
     /\ IsSome(uri_str)
     /\ ~Contains(text, PERCENT)
     /\ AuthorityAsWritten(text))
        => Unwrap(uri_str) = Ok(FoldScheme(text))

\* C1's case: a round trip of a text with an authority that folds the scheme.
C1_Witness ==
    /\ entry = "Uri::parse"
    /\ IsSome(uri_str) /\ IsOk(Unwrap(uri_str))
    /\ ~Contains(text, PERCENT) /\ AuthorityAsWritten(text)
    /\ IsSome(Unwrap(uri).val.authority)
    /\ Unwrap(uri_str).val # text

\* The value of a decimal numeral.
RECURSIVE NumeralValue(_)
NumeralValue(n) ==
    IF n = <<>> THEN 0 ELSE 10 * NumeralValue(SubSeq(n, 1, Len(n) - 1)) + (n[Len(n)] - 48)

\* The components are those of the claim: a scheme that starts with an ALPHA,
\* a non-empty userinfo, a non-empty registered name, a decimal port in
\* [0,65535], a path that is empty or starts with a single '/'.
WellFormed(p) ==
    /\ p.scheme # <<>> /\ p.scheme[1] \in ALPHA
    /\ \A i \in 1..Len(p.scheme) : p.scheme[i] \in SCHEME
    /\ p.userinfo # <<>> /\ \A i \in 1..Len(p.userinfo) : p.userinfo[i] \in USER_INFO
    /\ p.host # <<>> /\ \A i \in 1..Len(p.host) : p.host[i] \in REG_NAME
    /\ p.port # <<>> /\ \A i \in 1..Len(p.port) : p.port[i] \in DIGIT
    /\ NumeralValue(p.port) <= 65535
    /\ \A i \in 1..Len(p.path) : p.path[i] \in PATH
    /\ p.path = <<>> \/ (p.path[1] = SLASH /\ (Len(p.path) = 1 \/ p.path[2] # SLASH))
    /\ \A i \in 1..Len(p.query) : p.query[i] \in QUERY
    /\ \A i \in 1..Len(p.fragment) : p.fragment[i] \in FRAGMENT

\* C4: Uri.parse of scheme ":" "//" userinfo "@" host ":" port path "?" query
\* "#" fragment, for well-formed components, succeeds and returns exactly those
\* components, the scheme lowercased and the port as the integer.
C4_Decomposition ==
    (IsSome(parts) /\ WellFormed(Unwrap(parts)) /\ IsSome(uri))
        => LET p == Unwrap(parts)
           IN Unwrap(uri) =
                Ok(MkUri(Some(Lowercase(p.scheme)),
                         Some(MkAuthority(Some(p.userinfo), Some(p.host),
                                          Some(NumeralValue(p.port)))),
                         p.path, Some(p.query), Some(p.fragment)))

\* C4's case: a parsed well-formed URI with a mixed-case scheme, a port with a
\* leading zero and a '?' inside its query.
C4_Witness ==
    /\ IsSome(parts) /\ WellFormed(Unwrap(parts))
    /\ IsSome(uri) /\ IsOk(Unwrap(uri))
    /\ Unwrap(parts).scheme # Lowercase(Unwrap(parts).scheme)
    /\ Unwrap(parts).port[1] = 48 /\ Len(Unwrap(parts).port) > 1
    /\ Contains(Unwrap(parts).query, QUESTION)

\* C5: stringify() never fails on what parse returned: Uri.stringify on the Uri
\* of every accepted string, and Authority.stringify on every Authority that
\* Authority.parse returned, are Ok.
C5_StringifyNeverFails ==
    /\ IsSome(uri_str) => IsOk(Unwrap(uri_str))
    /\ IsSome(auth_str) => IsOk(Unwrap(auth_str))

\* C5's case: stringify of a Uri whose path was decoded from an escape of a
\* character outside PATH.
C5_Witness ==
    /\ IsSome(uri_str) /\ IsOk(Unwrap(uri_str))
    /\ \E i \in 1..Len(Unwrap(uri).val.path) : Unwrap(uri).val.path[i] \notin PATH

(***************************************************************************)
(* What the specification says of Authority.parse.                         *)
(***************************************************************************)
\* Some field of the Authority a is present.
Populated(a) == IsSome(a.userinfo) \/ IsSome(a.host) \/ IsSome(a.port)

\* "", "@", ":" and "@:".
DelimitersOnly == {<<>>, <<AT>>, <<COLON>>, <<AT, COLON>>}

\* C11: Authority.parse never returns an Authority whose userinfo, host and
\* port are all absent; "", "@", ":" and "@:" give Ok(None); and Uri.parse then
\* has no authority: no parsed Uri holds an all-absent Authority, and "//:/A"
\* parses with the authority absent and the path "/A".
C11_NeverAllAbsent ==
    /\ (IsSome(authority) /\ IsOk(Unwrap(authority)) /\ IsSome(Unwrap(authority).val))
          => Populated(Unwrap(Unwrap(authority).val))
    /\ (IsSome(reparsed) /\ IsOk(Unwrap(reparsed)) /\ IsSome(Unwrap(reparsed).val))
          => Populated(Unwrap(Unwrap(reparsed).val))
    /\ (entry = "Authority::parse" /\ IsSome(authority) /\ text \in DelimitersOnly)
          => Unwrap(authority) = Ok(None)
    /\ (IsSome(uri) /\ IsOk(Unwrap(uri)) /\ IsSome(Unwrap(uri).val.authority))
          => Populated(Unwrap(Unwrap(uri).val.authority))
    /\ (IsSome(uri) /\ text = <<SLASH, SLASH, COLON, SLASH, 65>>)
          => Unwrap(uri) = Ok(MkUri(None, None, <<SLASH, 65>>, None, None))

\* C11's case: Authority.parse has returned for "@:", whose userinfo, host and
\* port all end up absent.
C11_Witness ==
    /\ entry = "Authority::parse" /\ text = <<AT, COLON>>
    /\ authority = Some(Ok(None))

\* The number of '@' in s.
AtCount(s) == Cardinality({i \in 1..Len(s) : s[i] = AT})

\* The position of the last '@' of s (s has one).
LastAt(s) == CHOOSE i \in 1..Len(s) : s[i] = AT /\ \A j \in (i + 1)..Len(s) : s[j] # AT

\* C12: Authority.parse splits at the LAST '@': a text with two or more '@' has
\* a userinfo part that holds an '@', so (when that part has no '%' before it
\* and the text after the last '@' is not a bracketed host) parse fails with
\* UserinfoIllegalCharacter.
C12_SplitsAtLastAt ==
    (/\ entry = "Authority::parse" /\ IsSome(authority)
     /\ AtCount(text) >= 2
     /\ ~Contains(Take(text, LastAt(text) - 1), PERCENT)
     /\ ~StartsWith(Drop(text, LastAt(text)), LBRACKET))
        => Unwrap(authority) = Err("UserinfoIllegalCharacter")

\* t is pre '[' x ']' post: pre is empty or a userinfo of USER_INFO characters
\* and '@', x holds no ']' and no '@', post is empty or ':' and a decimal port.
IsBracketedForm(t) ==
    LET open == Find(t, LBRACKET)
        close == Find(t, RBRACKET)
    IN /\ open # -1 /\ close > open
       /\ \A i \in (open + 1)..Len(t) : t[i] # AT
       /\ LET pre == Take(t, open)
          IN \/ pre = <<>>
             \/ /\ Len(pre) >= 2 /\ pre[Len(pre)] = AT
                /\ \A i \in 1..(Len(pre) - 1) : pre[i] \in USER_INFO
       /\ LET post == Drop(t, close + 1)
          IN \/ post = <<>>
             \/ /\ post[1] = COLON
                /\ IsCanonicalNumeral(Drop(post, 1))
                /\ NumeralValue(Drop(post, 1)) <= MAX_U16

\* The x of a text pre '[' x ']' post.
Interior(t) == SubSeq(t, Find(t, LBRACKET) + 2, Find(t, RBRACKET))

\* The '[' x ']' of a text pre '[' x ']' post.
BracketedHost(t) == SubSeq(t, Find(t, LBRACKET) + 1, Find(t, RBRACKET) + 1)

\* x begins with 'v' or 'V'.
IsVersioned(x) == StartsWith(x, LOWER_V) \/ StartsWith(x, UPPER_V)

\* C13: for a host '[' x ']' whose x does not begin with 'v' or 'V', with an
\* optional userinfo before and ':port' after, Authority.parse succeeds if and
\* only if is_valid_ip_v6(x) holds for the whole x; on success the stored host
\* is '[' x ']' verbatim; "[::]" is accepted; a rejected x in a bracketed host
\* of at least 4 characters fails with IllegalIPv6.
C13_Ipv6Host ==
    (/\ entry = "Authority::parse" /\ IsSome(authority)
     /\ IsBracketedForm(text) /\ ~IsVersioned(Interior(text)))
        => LET x == Interior(text)
               r == Unwrap(authority)
           IN /\ IsOk(r) <=> is_valid_ip_v6(x)
              /\ IsOk(r) => /\ IsSome(r.val)
                            /\ Unwrap(r.val).host = Some(BracketedHost(text))
              /\ (~is_valid_ip_v6(x) /\ Len(x) + 2 >= 4) => r = Err("IllegalIPv6")
              /\ text = <<LBRACKET, COLON, COLON, RBRACKET>> => IsOk(r)

\* C14: for a host '[' x ']' whose x begins with 'v' or 'V', Authority.parse
\* succeeds, retaining '[' x ']', exactly when is_valid_ip_v_future(x) holds
\* for the whole x, and otherwise fails with IllegalIPvFuture (never with
\* IllegalIPv6).
C14_IpVFutureHost ==
    (/\ entry = "Authority::parse" /\ IsSome(authority)
     /\ IsBracketedForm(text) /\ IsVersioned(Interior(text)))
        => LET x == Interior(text)
               r == Unwrap(authority)
           IN IF is_valid_ip_v_future(x)
              THEN /\ IsOk(r) /\ IsSome(r.val)
                   /\ Unwrap(r.val).host = Some(BracketedHost(text))
              ELSE r = Err("IllegalIPvFuture")

\* The host of the Authority in a parse result r is not one that starts with
\* '[' and does not end with ']'.
HostIsClosed(r) ==
    (IsOk(r) /\ IsSome(r.val) /\ IsSome(Unwrap(r.val).host)
        /\ StartsWith(Unwrap(Unwrap(r.val).host), LBRACKET))
        => LET h == Unwrap(Unwrap(r.val).host) IN h[Len(h)] = RBRACKET

\* C15: a host that starts with '[' is accepted only if it ends with ']': a
\* text that starts with '[' and has after its closing ']' a character other
\* than the ':' of a port is rejected, and no returned Authority has a host
\* that starts with '[' and does not end with ']'.
C15_BracketedHostIsClosed ==
    /\ IsSome(authority) => HostIsClosed(Unwrap(authority))
    /\ IsSome(reparsed) => HostIsClosed(Unwrap(reparsed))
    /\ (/\ entry = "Authority::parse" /\ IsSome(authority)
        /\ StartsWith(text, LBRACKET) /\ Find(text, RBRACKET) # -1
        /\ Len(text) > Find(text, RBRACKET) + 1
        /\ text[Find(text, RBRACKET) + 2] # COLON)
          => ~IsOk(Unwrap(authority))

\* t is h ':' p: h is empty or a registered name of REG_NAME characters, the
\* port text p is not empty and holds no '@'.
IsHostPortForm(t) ==
    LET colon == Find(t, COLON)
    IN /\ colon # -1 /\ ~Contains(t, AT)
       /\ \A i \in 1..colon : t[i] \in REG_NAME
       /\ Len(t) > colon + 1

\* The p of a text h ':' p.
PortOf(t) == Drop(t, Find(t, COLON) + 1)

\* p is written with decimal digits only.
DigitsOnly(p) == \A i \in 1..Len(p) : p[i] \in DIGIT

\* C16: a present port text is accepted only if it is written with digits only
\* and its base-10 value is in [0,65535], and then that value is the port; any
\* other port text (a leading '+', a sign, a percent-escape, a value above
\* 65535) makes Authority.parse fail with ParsePortError.
C16_PortDigitsOnly ==
    (entry = "Authority::parse" /\ IsSome(authority) /\ IsHostPortForm(text))
        => LET p == PortOf(text)
               r == Unwrap(authority)
           IN IF DigitsOnly(p) /\ NumeralValue(p) <= MAX_U16
              THEN /\ IsOk(r) /\ IsSome(r.val)
                   /\ Unwrap(r.val).port = Some(NumeralValue(p))
              ELSE r = Err("ParsePortError")

\* The kinds the codec itself fails with.
GenericKinds == {"IllegalCharacter", "IllegalPercentEncoding"}

\* C17: Uri.parse and Authority.parse never return IllegalCharacter or
\* IllegalPercentEncoding: every codec failure inside a component surfaces as
\* a kind of that component.
C17_ErrorsRemapped ==
    /\ (IsSome(uri) /\ IsErr(Unwrap(uri))) => Unwrap(uri).err \notin GenericKinds
    /\ (IsSome(authority) /\ IsErr(Unwrap(authority)))
          => Unwrap(authority).err \notin GenericKinds
    /\ (IsSome(reparsed) /\ IsErr(Unwrap(reparsed)))
          => Unwrap(reparsed).err \notin GenericKinds

(***************************************************************************)
(* What the specification says of the scheme.                              *)
(***************************************************************************)
\* The part of s before its first '/' (all of s when it has none).
SchemeWindow(s) ==
    LET slash == Find(s, SLASH) IN IF slash = -1 THEN s ELSE Take(s, slash)

\* The kinds a scheme fails with.
SchemeKinds == {"EmptyScheme", "SchemeIllegalFirstCharacter", "SchemeIllegalCharacter"}

\* "A:A:2"
TwoColons == <<65, COLON, 65, COLON, 50>>

\* C18: Uri.parse looks for ':' only before the first '/'.  A ':' found there
\* with nothing before it fails with EmptyScheme; one found after some text
\* makes that text the scheme, and what follows the ':' is parsed as the rest
\* (as a Uri without a scheme would be); with no ':' there the Uri has no
\* scheme and no scheme error.  So "/A:2" has no scheme, and "A:A:2" has the
\* scheme "a" and the path "A:2".
C18_SchemeSplit ==
    (entry = "Uri::parse" /\ IsSome(uri))
        => LET c == Find(SchemeWindow(text), COLON)
               r == Unwrap(uri)
               rest == Drop(text, c + 1)
               bare == IF Contains(SchemeWindow(rest), COLON)
                       THEN UriParse(<<SLASH>> \o rest) ELSE UriParse(rest)
           IN /\ c = 0 => r = Err("EmptyScheme")
              /\ (c = -1 /\ IsOk(r)) => r.val.scheme = None
              /\ (c = -1 /\ IsErr(r)) => r.err \notin SchemeKinds
              /\ (c > 0 /\ IsOk(r)) =>
                    /\ r.val.scheme = Some(Lowercase(Take(text, c)))
                    /\ IsOk(bare)
                    /\ r.val.authority = bare.val.authority
                    /\ r.val.path = IF Contains(SchemeWindow(rest), COLON)
                                    THEN Drop(bare.val.path, 1) ELSE bare.val.path
                    /\ r.val.query = bare.val.query
                    /\ r.val.fragment = bare.val.fragment
              /\ text = <<SLASH, 65, COLON, 50>>
                    => r = Ok(MkUri(None, None, text, None, None))
              /\ text = TwoColons
                    => r = Ok(MkUri(Some(<<97>>), None, <<65, COLON, 50>>, None, None))

\* C18's case: Uri.parse has returned for "A:A:2", a text with a second ':'
\* after its scheme separator.
C18_Witness ==
    /\ entry = "Uri::parse" /\ text = TwoColons
    /\ IsSome(uri) /\ IsOk(Unwrap(uri))
    /\ Unwrap(uri).val.path = <<65, COLON, 50>>

\* The scheme text that validation is given: the text before the first ':' of
\* a text whose ':' precedes every '/', when parse did not stop at the
\* authority split before validating.
ValidatesScheme ==
    /\ entry = "Uri::parse" /\ IsSome(uri)
    /\ Find(SchemeWindow(text), COLON) > 0
    /\ Unwrap(uri) # Err("EmptyAuthority")

\* The text before the first ':' of text.
Captured == Take(text, Find(text, COLON))

\* Every scheme of a parsed Uri is non-empty, starts with a lowercase letter
\* and contains no uppercase letter and no '%'.
StoredSchemeIsCanonical ==
    (IsSome(uri) /\ IsOk(Unwrap(uri)) /\ IsSome(Unwrap(uri).val.scheme))
        => LET s == Unwrap(Unwrap(uri).val.scheme)
           IN /\ s # <<>>
              /\ s[1] \in 97..122
              /\ \A i \in 1..Len(s) : s[i] \notin 65..90 /\ s[i] # PERCENT

C20_ReserializationStable ==
    /\ (entry = "Authority::parse" /\ IsSome(auth_str))
          => (IsOk(Unwrap(auth_str)) /\ IsSome(Unwrap(auth_str).val))
    /\ IsSome(reparsed) => reparsed = authority

(***************************************************************************)
(* What the specification says of Uri.parse and Uri.stringify.             *)
(***************************************************************************)
\* UNRESERVED, SUB_DELIMS, ':', '@', '/' and '?'.
PcharSlashQuestion == UNRESERVED \cup SUB_DELIMS \cup {COLON, AT, SLASH, QUESTION}

\* stringify() has returned for a parsed Uri that has a '?' in its path and
\* neither query nor fragment.
QuestionInPathOnly ==
    /\ IsSome(uri_str) /\ IsOk(Unwrap(uri_str))
    /\ Contains(Unwrap(uri).val.path, QUESTION)
    /\ IsNone(Unwrap(uri).val.query) /\ IsNone(Unwrap(uri).val.fragment)

\* C21 as stated: PATH = QUERY = FRAGMENT = UNRESERVED, SUB_DELIMS, ':', '@',
\* '/' and '?'; '?' is a member of the path's class, so stringify writes a '?'
\* of a path as it is.
C21_PathClassAsStated ==
    /\ ClassSet("PATH") = PcharSlashQuestion
    /\ ClassSet("QUERY") = PcharSlashQuestion
    /\ ClassSet("FRAGMENT") = PcharSlashQuestion
    /\ QuestionInPathOnly => Contains(Unwrap(uri_str).val, QUESTION)

\* C21: QUERY = FRAGMENT = UNRESERVED, SUB_DELIMS, ':', '@', '/' and '?', and
\* PATH is that set without '?'; '?' is not a member of the path's class, so
\* stringify writes no '?' of a path as it is: the text of a Uri without query
\* and fragment holds no '?'.
C21_PathClass ==
    /\ ClassSet("PATH") = PcharSlashQuestion \ {QUESTION}
    /\ ClassSet("QUERY") = PcharSlashQuestion
    /\ ClassSet("FRAGMENT") = PcharSlashQuestion
    /\ (/\ IsSome(uri_str) /\ IsOk(Unwrap(uri_str))
        /\ IsNone(Unwrap(uri).val.query) /\ IsNone(Unwrap(uri).val.fragment))
          => ~Contains(Unwrap(uri_str).val, QUESTION)

\* C21's case: the path of a stringified Uri holds a '?' (decoded from "%3F").
C21_Witness == QuestionInPathOnly

(***************************************************************************)
(* What the specification says of the IPv6 validator's scan.               *)
(***************************************************************************)
\* The number of ':' in s.
ColonCount(s) == Cardinality({i \in 1..Len(s) : s[i] = COLON})

\* The number of places of s where two ':' stand side by side (":::" has two).
DoubleColonCount(s) ==
    Cardinality({i \in 1..(Len(s) - 1) : s[i] = COLON /\ s[i + 1] = COLON})

\* C22: is_valid_ip_v6 returns true only for a literal that is non-empty,
\* consists of HEXDIG characters and ':' only, has at most 7 colons, has at most
\* one place where two colons stand side by side, and has exactly 7 colons or a
\* "::"; a literal with fewer than 7 colons and no "::" is rejected.
C22_Ipv6Necessary ==
    /\ (entry = "is_valid_ip_v6" /\ valid = Some(TRUE))
          => /\ text # <<>>
             /\ \A i \in 1..Len(text) : text[i] \in HEXDIG \cup {COLON}
             /\ ColonCount(text) <= 7
             /\ DoubleColonCount(text) <= 1
             /\ ColonCount(text) = 7 \/ DoubleColonCount(text) = 1
    /\ (/\ entry = "is_valid_ip_v6" /\ IsSome(valid)
        /\ ColonCount(text) < 7 /\ DoubleColonCount(text) = 0)
          => valid = Some(FALSE)

\* C22's case: the validator has accepted a literal of 8 groups without "::".
C22_Witness ==
    /\ entry = "is_valid_ip_v6" /\ valid = Some(TRUE)
    /\ ColonCount(text) = 7 /\ DoubleColonCount(text) = 0

(***************************************************************************)
(* What the specification says of the host and port split.                 *)
(***************************************************************************)
\* The host:port part of an authority text with at most one '@'.
HostPortPart(t) == IF Contains(t, AT) THEN Drop(t, Find(t, AT) + 1) ELSE t

\* t has at most one '@', a userinfo before it of USER_INFO characters only,
\* and a host:port part that starts with '['.
HasBracketedHostPort(t) ==
    /\ AtCount(t) <= 1
    /\ Contains(t, AT) => \A i \in 1..Find(t, AT) : t[i] \in USER_INFO
    /\ StartsWith(HostPortPart(t), LBRACKET)

\* The 0-based place of the first ':' after the first ']' of hp, or -1.
SeparatorAfterBracket(hp) ==
    LET close == Find(hp, RBRACKET)
        after == Find(Drop(hp, close + 1), COLON)
    IN IF after = -1 THEN -1 ELSE close + 1 + after

\* "[::A]:2"
BracketedWithPort == <<LBRACKET, COLON, COLON, 65, RBRACKET, COLON, 50>>

\* C23: when the host:port part starts with '[', Authority.parse fails with
\* IllegaHostDefinition if it has no ']'; otherwise the port's ':' is looked
\* for only after the first ']': an accepted text has as host everything up to
\* that ':' (all of the part when there is none) and a port only from the text
\* after it, and no colon inside the brackets cuts the host short.  "[::A]:2"
\* gives host "[::A]" and port 2; "[::A]" gives host "[::A]" and no port.
C23_PortAfterBracket ==
    (entry = "Authority::parse" /\ IsSome(authority) /\ HasBracketedHostPort(text))
        => LET hp == HostPortPart(text)
               r == Unwrap(authority)
               sep == SeparatorAfterBracket(hp)
               host == IF sep = -1 THEN hp ELSE Take(hp, sep)
               port == IF sep = -1 THEN <<>> ELSE Drop(hp, sep + 1)
           IN IF ~Contains(hp, RBRACKET) THEN r = Err("IllegaHostDefinition")
              ELSE /\ IsOk(r) =>
                        /\ IsSome(r.val)
                        /\ Unwrap(r.val).host = Some(host)
                        /\ port = <<>> => IsNone(Unwrap(r.val).port)
                        /\ (port # <<>> /\ DigitsOnly(port))
                              => Unwrap(r.val).port = Some(NumeralValue(port))
                   /\ (IsErr(r) /\ Len(host) >= 4) => r.err # "IllegaHostDefinition"
                   /\ text = BracketedWithPort
                        => r = Ok(Some(MkAuthority(None, Some(Take(text, 5)), Some(2))))
                   /\ text = Take(BracketedWithPort, 5)
                        => r = Ok(Some(MkAuthority(None, Some(text), None)))

\* C23's case: Authority.parse has accepted a bracketed host with colons
\* inside the brackets and a port after them.
C23_Witness ==
    /\ entry = "Authority::parse" /\ HasBracketedHostPort(text)
    /\ IsSome(authority) /\ IsOk(Unwrap(authority))
    /\ Contains(Interior(text), COLON)
    /\ IsSome(Unwrap(Unwrap(authority).val).port)

(***************************************************************************)
(* The raw pieces of a Uri text, as the specification cuts them.           *)
(***************************************************************************)
\* The text after the scheme and its ':' (all of t when it has no scheme).
Remainder(t) ==
    LET c == Find(SchemeWindow(t), COLON) IN IF c > 0 THEN Drop(t, c + 1) ELSE t

\* The 0-based place of the last c of s, or -1.
LastPlace(s, c) ==
    IF Contains(s, c)
    THEN (CHOOSE i \in 1..Len(s) : s[i] = c /\ \A j \in (i + 1)..Len(s) : s[j] # c) - 1
    ELSE -1

\* Everything after the last '#' of the remainder, if it has one.
RawFragment(t) ==
    LET rem == Remainder(t)
    IN IF Contains(rem, HASH) THEN Some(Drop(rem, LastPlace(rem, HASH) + 1)) ELSE None

\* The remainder before its last '#'.
BeforeFragment(t) ==
    LET rem == Remainder(t)
    IN IF Contains(rem, HASH) THEN Take(rem, LastPlace(rem, HASH)) ELSE rem

\* Everything after the first '?' of the part before the fragment.
RawQuery(t) ==
    LET pre == BeforeFragment(t)
    IN IF Contains(pre, QUESTION) THEN Some(Drop(pre, Find(pre, QUESTION) + 1)) ELSE None

\* The part before the query.
BeforeQuery(t) ==
    LET pre == BeforeFragment(t)
    IN IF Contains(pre, QUESTION) THEN Take(pre, Find(pre, QUESTION)) ELSE pre

\* s starts with "//".
StartsWithTwoSlashes(s) == Len(s) >= 2 /\ s[1] = SLASH /\ s[2] = SLASH

\* The text from just after "//" up to the next '/' or the end.
RawAuthority(t) ==
    LET ap == BeforeQuery(t)
        after == Drop(ap, 2)
    IN IF ~StartsWithTwoSlashes(ap) THEN None
       ELSE IF Contains(after, SLASH) THEN Some(Take(after, Find(after, SLASH)))
       ELSE Some(after)

\* The rest after the raw authority, or the whole part when there is none.
RawPath(t) ==
    LET ap == BeforeQuery(t)
    IN IF IsNone(RawAuthority(t)) THEN ap ELSE Drop(ap, 2 + Len(Unwrap(RawAuthority(t))))

\* The decoding of an optional raw piece against a class, as an Option.
DecodedPiece(raw, class) ==
    IF IsNone(raw) THEN None ELSE Some(ExpectedDecoding(Unwrap(raw), class).val)

\* The raw piece, if present, decodes without failure.
PieceDecodes(raw, class) == IsSome(raw) => IsOk(ExpectedDecoding(Unwrap(raw), class))

\* Uri.parse has returned for a text that does not fail with EmptyScheme.
ParsedPastScheme ==
    /\ entry = "Uri::parse" /\ IsSome(uri)
    /\ Find(SchemeWindow(text), COLON) # 0

\* C24: the raw fragment is everything after the LAST '#' of the remainder and
\* the raw query everything after the FIRST '?' of the part before that '#':
\* the fragment and query of a parsed Uri are the decodings of these pieces
\* (present, even if empty, exactly when the '#' or '?' is there), and a
\* FragmentIllegalCharacter or QueryIllegalCharacter is an illegal character of
\* that raw piece.
C24_FragmentQuerySplit ==
    ParsedPastScheme
        => LET r == Unwrap(uri)
           IN /\ IsOk(r) =>
                    /\ PieceDecodes(RawFragment(text), FRAGMENT)
                    /\ r.val.fragment = DecodedPiece(RawFragment(text), FRAGMENT)
                    /\ PieceDecodes(RawQuery(text), QUERY)
                    /\ r.val.query = DecodedPiece(RawQuery(text), QUERY)
              /\ r = Err("FragmentIllegalCharacter")
                    => /\ IsSome(RawFragment(text))
                       /\ ExpectedDecoding(Unwrap(RawFragment(text)), FRAGMENT)
                              = Err("IllegalCharacter")
              /\ r = Err("QueryIllegalCharacter")
                    => /\ IsSome(RawQuery(text))
                       /\ ExpectedDecoding(Unwrap(RawQuery(text)), QUERY)
                              = Err("IllegalCharacter")

\* C24's case: a parsed Uri whose query holds a second '?' and whose fragment
\* holds a '?'.
C24_Witness ==
    /\ ParsedPastScheme /\ IsOk(Unwrap(uri))
    /\ IsSome(Unwrap(uri).val.query) /\ Contains(Unwrap(Unwrap(uri).val.query), QUESTION)
    /\ IsSome(Unwrap(uri).val.fragment)
    /\ Contains(Unwrap(Unwrap(uri).val.fragment), QUESTION)

\* The scheme of t, if it has one, passes validation.
SchemeIsValid(t) ==
    LET c == Find(SchemeWindow(t), COLON)
        s == Take(t, c)
    IN c > 0 => /\ s[1] \in ALPHA
                /\ \A i \in 1..Len(s) : s[i] \in SCHEME

PieceFailure(raw, class, kind) ==
    IF IsNone(raw) THEN None
    ELSE LET d == ExpectedDecoding(Unwrap(raw), class)
         IN IF IsOk(d) THEN None
            ELSE Some(IF d.err = "IllegalCharacter" THEN kind ELSE d.err)

\* The error of the scheme of t, if it has one.
SchemeFailure(t) ==
    LET c == Find(SchemeWindow(t), COLON)
        s == Take(t, c)
    IN IF c <= 0 THEN None
       ELSE IF Contains(s, PERCENT) THEN Some("SchemeIllegalCharacter")
       ELSE IF s[1] \notin ALPHA THEN Some("SchemeIllegalFirstCharacter")
       ELSE IF \E i \in 1..Len(s) : s[i] \notin SCHEME THEN Some("SchemeIllegalCharacter")
       ELSE None

\* The error of the raw path of t, if it has one.
PathFailure(t) ==
    IF StartsWithTwoSlashes(RawPath(t)) THEN Some("PathIllegalStart")
    ELSE PieceFailure(Some(RawPath(t)), PATH, "PathIllegalCharacter")

\* The errors of scheme, fragment, query and path, in the order of validation.
Failures(t) ==
    <<SchemeFailure(t),
      PieceFailure(RawFragment(t), FRAGMENT, "FragmentIllegalCharacter"),
      PieceFailure(RawQuery(t), QUERY, "QueryIllegalCharacter"),
      PathFailure(t)>>

\* Uri.parse has returned for a text that passes the splitting steps.
ParsedPastSplits == ParsedPastScheme /\ RawAuthority(text) # Some(<<>>)

\* C26: for a text that passes the splitting steps, the error returned is the
\* one of the first invalid component in the order scheme, fragment, query,
\* path, authority; when the first four are valid the outcome is that of the
\* authority; no Uri is returned when a component is invalid.
C26_FailFastOrder ==
    ParsedPastSplits
        => LET r == Unwrap(uri)
               f == Failures(text)
               failed == {i \in 1..4 : IsSome(f[i])}
               auth == RawAuthority(text)
           IN IF failed # {}
              THEN r = Err(Unwrap(f[CHOOSE i \in failed : \A j \in failed : i <= j]))
              ELSE /\ IsNone(auth) => IsOk(r)
                   /\ IsSome(auth) => /\ r.kind = AuthorityParse(Unwrap(auth)).kind
                                      /\ r.err = AuthorityParse(Unwrap(auth)).err

\* C26's case: parse has failed on a text whose fragment, query and path are
\* all invalid.
C26_Witness ==
    /\ ParsedPastSplits
    /\ \A i \in 2..4 : IsSome(Failures(text)[i])
    /\ Unwrap(uri) = Err(Unwrap(Failures(text)[2]))

\* C27: for every string s accepted by Uri.parse with result u, u.stringify()
\* returns Ok(t) and Uri.parse(t) returns Ok(u') with u' equal to u in scheme,
\* authority, path, query and fragment.
C27_UriReparseStable ==
    /\ IsSome(uri_str) => IsOk(Unwrap(uri_str))
    /\ IsSome(uri_reparsed) => uri_reparsed = uri

\* The call that produced r returned: it did not panic.
Returned(r) == r.kind \in {"Ok", "Err"}

\* C28: Uri.parse and Authority.parse return Ok or Err for every input string,
\* inputs with multi-byte characters included: no slice taken during parsing is
\* out of range or off a character boundary.
C28_Totality ==
    /\ IsSome(uri) => Returned(Unwrap(uri))
    /\ IsSome(authority) => Returned(Unwrap(authority))
    /\ IsSome(reparsed) => Returned(Unwrap(reparsed))
    /\ IsSome(uri_reparsed) => Returned(Unwrap(uri_reparsed))

\* The text before the first '?' or '#' of t (all of t when it has neither).
BeforeQueryOrFragment(t) ==
    LET marks == {i \in 1..Len(t) : t[i] \in {QUESTION, HASH}}
    IN IF marks = {} THEN t
       ELSE Take(t, (CHOOSE i \in marks : \A j \in marks : i <= j) - 1)

\* "?A:2"
ColonInQuery == <<QUESTION, 65, COLON, 50>>

\* C29: a ':' that occurs only inside the query or the fragment is never taken
\* as the scheme delimiter: for a text with a '?' or '#' and no ':' before the
\* first of them, Uri.parse reports no scheme and no scheme error; "?A:2"
\* parses to no scheme, an empty path and the query "A:2".
C29_ColonInQueryIsNoScheme ==
    (/\ entry = "Uri::parse" /\ IsSome(uri)
     /\ BeforeQueryOrFragment(text) # text
     /\ ~Contains(BeforeQueryOrFragment(text), COLON))
        => LET r == Unwrap(uri)
           IN /\ IsOk(r) => IsNone(r.val.scheme)
              /\ IsErr(r) => r.err \notin SchemeKinds
              /\ text = ColonInQuery
                    => r = Ok(MkUri(None, None, <<>>, Some(<<65, COLON, 50>>), None))

\* The Uri in the parse result r has no path that begins with "//", and with
\* an authority present its path is empty or begins with '/'.
PathIsWellPlaced(r) ==
    IsOk(r) => /\ ~StartsWithTwoSlashes(r.val.path)
               /\ IsSome(r.val.authority)
                     => (r.val.path = <<>> \/ StartsWith(r.val.path, SLASH))

\* C30: no Uri returned by Uri.parse has a decoded path that begins with "//",
\* and every Uri returned with an authority present has a path that is empty
\* or begins with '/'.
C30_PathStart ==
    /\ IsSome(uri) => PathIsWellPlaced(Unwrap(uri))
    /\ IsSome(uri_reparsed) => PathIsWellPlaced(Unwrap(uri_reparsed))

====
